---- MODULE Spec2Model ----
(***************************************************************************)
(* Wallet ledger, deposit reconciliation, stock reservation and order      *)
(* placement of the Iget backend, modelled over a MongoDB-like store:      *)
(* committed documents, and per-request sessions whose writes are staged   *)
(* until commitTransaction.  A transactional write conflicts (and throws)  *)
(* when the document was changed after the session's snapshot or carries   *)
(* an uncommitted write of another session; a write outside a session      *)
(* waits for such a session to end.                                        *)
(***************************************************************************)
EXTENDS Integers, Sequences, FiniteSets, TLC

\* ---------------------------------------------------------------- bounds
NumProcs == 2
MaxAmount == 1
MaxTx == 1
MaxCalls == 2
MaxQty == 1
MaxStock == 1

Procs == 1..NumProcs
Amounts == 1..MaxAmount
UserIds == {1}
Quantities == (0 - MaxQty)..MaxQty

VARIABLES
  users,     \* User documents: exists, approved, wallet.balance
  txs,       \* Transaction documents, in order of insertion
  orders,    \* Order documents, in order of insertion
  bundle,    \* the Bundle document ordered from
  proc,      \* per request handler: program counter, locals, session
  calls,     \* number of requests started so far
  lastDone,  \* (history) index of the Transaction completed most recently
  loose      \* (history) committed balance writes that no Transaction records

vars == <<users, txs, orders, bundle, proc, calls, lastDone, loose>>
store == <<users, txs, orders, bundle, lastDone, loose>>

\* ------------------------------------------------------------ documents
UserKey(u) == <<"user", u>>
TxKey(i) == <<"tx", i>>
BundleKey == <<"bundle", 1>>
OrderKey(o) == <<"order", o>>

\* Transaction document (schema.js transactionSchema) plus the processing
\* claim flag that deposite.js sets on it.
\* `by` is the request that created it and `applied` whether the balance
\* write it records has been committed (both history, not stored fields).
NewTx(u, type, amount, status, before, after, by, applied) ==
  [user |-> u, type |-> type, amount |-> amount, status |-> status,
   processing |-> FALSE, balanceBefore |-> before, balanceAfter |-> after,
   by |-> by, applied |-> applied, reference |-> 0]

\* Order document (schema.js orderSchema).  `refunds` counts the committed
\* wallet credits made for the order by the status routes (history).
\* Order references a client can send or the random draw of /placeorder
\* can repeat.
NumOrderRefs == 2

\* The reference of request number req when nothing else has it.
FreshOrderRef(req) == NumOrderRefs + 1 + req

NewOrder(u, price, status, qty, by) ==
  [user |-> u, price |-> price, status |-> status, qty |-> qty, by |-> by,
   refunds |-> 0, ref |-> FreshOrderRef(by)]

\* Per-request state: program counter, locals, and the request's session.
IdleProc ==
  [pc |-> "idle", op |-> "none", req |-> 0, ref |-> 0, tx |-> 0, user |-> 0,
   amt |-> 0, qty |-> 0, order |-> 0, status |-> "none", api |-> FALSE,
   resp |-> "none", balBefore |-> 0, result |-> "none",
   snap |-> FALSE, snapUsers |-> <<>>, snapBundle |-> <<>>,
   dirty |-> {}, locks |-> {},
   stTx |-> <<>>, stUser |-> <<>>, stBundle |-> <<>>, stTxs |-> <<>>,
   stOrders |-> <<>>, stOrd |-> <<>>,
   startCompleted |-> FALSE, startPending |-> FALSE, wrote |-> FALSE,
   faulted |-> FALSE, stale |-> FALSE, seen |-> 0, sawAvail |-> 0,
   won |-> FALSE, same |-> FALSE,
   attempt |-> 0, err |-> [name |-> "none", msg |-> "none"],
   saw |-> "none", retry |-> FALSE, oref |-> 0, sub |-> 0,
   session |-> "none", max |-> 0, invoked |-> 0, waits |-> <<>>]

\* ----------------------------------------------------- session semantics
\* First operation of a session fixes its snapshot.
BeginSnap(r) ==
  IF r.snap THEN r
  ELSE [r EXCEPT !.snap = TRUE, !.snapUsers = users,
                 !.snapBundle = <<bundle>>, !.dirty = {},
                 !.session = "inTransaction"]

LockedByOther(p, key) == \E q \in Procs \ {p} : key \in proc[q].locks

\* A write inside p's session succeeds only on a document unchanged since the
\* snapshot and not written by another open session (WriteConflict otherwise).
\* (mutant) a store that lets a transaction write a document another
\* writer has changed or is changing
CanWriteUnchecked(p, key) == TRUE

CanWrite(p, key) == key \notin proc[p].dirty /\ ~LockedByOther(p, key)

\* abortTransaction and endSession: staged writes are discarded.
AbortSession(r) ==
  [r EXCEPT !.session = "none", !.snap = FALSE, !.snapUsers = <<>>, !.snapBundle = <<>>,
            !.dirty = {}, !.locks = {},
            !.stTx = <<>>, !.stUser = <<>>, !.stBundle = <<>>,
            !.stTxs = <<>>, !.stOrders = <<>>, !.stOrd = <<>>]

\* A committed write of `keys` by p is seen as a conflict by every other
\* session whose snapshot is older.
Touch(pr, p, keys) ==
  [q \in Procs |->
     IF q # p /\ pr[q].snap THEN [pr[q] EXCEPT !.dirty = @ \cup keys]
     ELSE pr[q]]

\* The handler returns: its session ends and its locals go, the request's
\* inputs and outcome stay on record.
Finish(r, res) ==
  [AbortSession(r) EXCEPT !.pc = "done", !.result = res,
                          !.balBefore = 0, !.seen = 0, !.tx = 0, !.order = 0,
                          !.status = "none", !.api = FALSE, !.sawAvail = 0]

\* Requests that take money out of a wallet.
DebitOps == {"debit", "placeorder", "bulk", "api", "devorder"}

\* $set of wallet.balance; `debits` counts the committed debits (history).
WriteBalance(us, u, bal, op) ==
  [us EXCEPT ![u].balance = bal,
             ![u].debits = IF op \in DebitOps THEN @ + 1 ELSE @]

\* A handler answers without touching the store.
Respond(p, r, res) ==
  /\ proc' = [proc EXCEPT ![p] = Finish(r, res)]
  /\ UNCHANGED store

\* A new request on worker p.
Begin(p, op) ==
  [IdleProc EXCEPT !.pc = "started", !.op = op, !.req = calls + 1]

\* Handler slots are interchangeable: a request takes the first free one.
Free(p) == proc[p].pc \in {"idle", "done"}

CanBegin(p) ==
  /\ Free(p)
  /\ calls < MaxCalls
  /\ \A q \in Procs : q < p => ~Free(q)

\* commitTransaction: every staged write becomes visible at once.
CommitSession(p, res) ==
  LET r == proc[p]
      upd == IF r.stTx = <<>> THEN txs ELSE [txs EXCEPT ![r.tx] = r.stTx[1]]
      refund == r.op = "bulkstatus" /\ r.stUser # <<>>
      ords == IF r.stOrd = <<>> THEN orders
              ELSE [orders EXCEPT ![r.order].status = r.stOrd[1],
                                  ![r.order].refunds = IF refund THEN @ + 1 ELSE @]
      new == [k \in 1..Len(r.stTxs) |->
                [r.stTxs[k] EXCEPT !.reference = Len(txs) + k]]
  IN /\ txs' = upd \o new
     /\ orders' = ords \o r.stOrders
     /\ loose' = IF refund THEN loose + 1 ELSE loose
     /\ users' = IF r.stUser = <<>> THEN users
                 ELSE WriteBalance(users, r.user, r.stUser[1], r.op)
     /\ bundle' = IF r.stBundle = <<>> THEN bundle ELSE r.stBundle[1]
     /\ lastDone' = IF r.stTxs # <<>> THEN Len(txs) + Len(r.stTxs)
                    ELSE IF r.stTx # <<>> THEN r.tx ELSE lastDone
     /\ proc' = Touch([proc EXCEPT ![p] = [Finish(@, res) EXCEPT !.wrote = TRUE]],
                      p, r.locks)
     /\ UNCHANGED calls

\* ------------------------------------------------- deposit reconciliation
\* Transaction.findOne({ reference })
TxByRef(r) ==
  IF \E i \in 1..Len(txs) : txs[i].reference = r
  THEN CHOOSE i \in 1..Len(txs) : txs[i].reference = r
  ELSE 0

\* (mutant) a store without the unique index on reference
RefTakenUnindexed(ref) == FALSE

\* The unique index on reference (schema.js): a save with a reference that
\* some Transaction already has fails with a duplicate-key error.
RefTaken(ref) == \E i \in 1..Len(txs) : txs[i].reference = ref

\* initiateDeposit: a pending deposit Transaction for an existing user.
InitiateDepositRef(u, amount, ref) ==
  /\ Len(txs) < MaxTx
  /\ users[u].exists
  /\ ~RefTaken(ref)
  /\ txs' = Append(txs, [NewTx(u, "deposit", amount, "pending",
                                users[u].balance, 0, 0, FALSE)
                            EXCEPT !.reference = ref])
  /\ UNCHANGED <<users, orders, bundle, proc, calls, lastDone, loose>>

\* initiateDeposit with a reference nothing else has, the usual case.
InitiateDeposit(u, amount) == InitiateDepositRef(u, amount, Len(txs) + 1)

\* A trigger (webhook, verify, polling, admin sweep) calls
\* processSuccessfulPayment(reference, source).
PSP_Start(p, r) ==
  /\ CanBegin(p)
  /\ calls' = calls + 1
  /\ proc' = [proc EXCEPT ![p] =
       [Begin(p, "psp") EXCEPT !.pc = "psp_claim", !.ref = r,
          !.startCompleted = (TxByRef(r) # 0 /\ txs[TxByRef(r)].status = "completed"),
          !.startPending = (TxByRef(r) # 0 /\ txs[TxByRef(r)].status = "pending")]]
  /\ UNCHANGED store

\* (mutant) the claim filter without its status condition
ClaimFilterAnyStatus(t) == ~t.processing

\* The filter of the claiming findOneAndUpdate.
ClaimFilter(t) == t.status = "pending" /\ ~t.processing

PSP_Claim(p) ==
  /\ proc[p].pc = "psp_claim"
  /\ LET i == TxByRef(proc[p].ref)
         match == i # 0 /\ ClaimFilter(txs[i])
     IN proc' = [proc EXCEPT ![p] =
          IF ~match THEN [@ EXCEPT !.pc = "psp_lookup"]
          ELSE IF LockedByOther(p, TxKey(i))
          THEN [@ EXCEPT !.pc = "psp_catch", !.saw = "held"]
          ELSE [BeginSnap(@) EXCEPT
                  !.pc = "psp_user", !.won = TRUE, !.tx = i,
                  !.user = txs[i].user,
                  !.amt = txs[i].amount,
                  !.locks = @ \cup {TxKey(i)},
                  !.stTx = <<[txs[i] EXCEPT !.processing = TRUE]>>]]
  /\ UNCHANGED <<store, calls>>

\* What the Transaction of reference r is to a call that did not claim it.
Standing(r) ==
  LET i == TxByRef(r)
  IN IF i = 0 THEN "absent"
     ELSE IF txs[i].status = "completed" THEN "completed"
     ELSE IF txs[i].status = "pending" /\ txs[i].processing THEN "held"
     ELSE "free"

\* Not claimed: report from the committed document.
PSP_Lookup(p) ==
  /\ proc[p].pc = "psp_lookup"
  /\ LET i == TxByRef(proc[p].ref)
     IN proc' = [proc EXCEPT ![p] =
          [Finish(@, IF i = 0 THEN "notFound"
                     ELSE IF txs[i].status = "completed" THEN "alreadyProcessed"
                     ELSE "beingProcessed")
             EXCEPT !.saw = Standing(proc[p].ref)]]
  /\ UNCHANGED <<store, calls>>

\* Winner: load the user (a session read, so from the snapshot), check the
\* amount, stage the completion of the Transaction; the store may fail there.
PSP_Complete(p, ok) ==
  /\ proc[p].pc = "psp_user"
  /\ LET usr == proc[p].snapUsers[proc[p].user]
         before == usr.balance
     IN proc' = [proc EXCEPT ![p] =
          IF ~usr.exists THEN Finish(@, "userNotFound")
          ELSE IF @.amt <= 0 THEN Finish(@, "invalidAmount")
          ELSE IF ~ok THEN [@ EXCEPT !.pc = "psp_catch", !.faulted = TRUE]
          ELSE [@ EXCEPT !.pc = "psp_upduser", !.balBefore = before,
                  !.stTx = <<[proc[p].stTx[1] EXCEPT
                      !.status = "completed", !.processing = FALSE,
                      !.applied = TRUE,
                      !.balanceBefore = before,
                      !.balanceAfter = before + proc[p].amt]>>]]
  /\ UNCHANGED <<store, calls>>

\* Winner: stage $inc wallet.balance.
PSP_UpdateUser(p) ==
  /\ proc[p].pc = "psp_upduser"
  /\ LET k == UserKey(proc[p].user)
     IN proc' = [proc EXCEPT ![p] =
          IF CanWrite(p, k)
          THEN [@ EXCEPT !.pc = "psp_commit", !.locks = @ \cup {k},
                  !.stUser = <<users[proc[p].user].balance + proc[p].amt>>]
          ELSE [@ EXCEPT !.pc = "psp_catch"]]
  /\ UNCHANGED <<store, calls>>

PSP_Commit(p) ==
  /\ proc[p].pc = "psp_commit"
  /\ CommitSession(p, "processed")

\* (mutant) a catch that commits what the session has staged
PSP_CatchCommitted(p) ==
  /\ proc[p].pc = "psp_catch"
  /\ CommitSession(p, "threw")

\* catch: abortTransaction.
PSP_Catch(p) ==
  /\ proc[p].pc = "psp_catch"
  /\ proc' = [proc EXCEPT ![p] = [AbortSession(@) EXCEPT !.pc = "psp_cleanup"]]
  /\ UNCHANGED <<store, calls>>

\* (mutant) a cleanup whose write does not wait for the transaction that
\* holds the document, and ends that transaction instead
PSP_CleanupForced(p) ==
  /\ proc[p].pc = "psp_cleanup"
  /\ LET i == TxByRef(proc[p].ref)
         change == i # 0 /\ txs[i].processing
     IN /\ txs' = IF change THEN [txs EXCEPT ![i].processing = FALSE] ELSE txs
        /\ proc' = [q \in Procs |->
                      IF q = p THEN [Finish(proc[p], "threw") EXCEPT !.wrote = change]
                      ELSE IF i # 0 /\ TxKey(i) \in proc[q].locks
                      THEN [AbortSession(proc[q]) EXCEPT !.pc = "psp_catch"]
                      ELSE proc[q]]
  /\ UNCHANGED <<users, orders, bundle, calls, lastDone, loose>>

\* catch: best-effort $unset of the processing fields, outside the session,
\* then rethrow.
PSP_Cleanup(p) ==
  /\ proc[p].pc = "psp_cleanup"
  /\ LET i == TxByRef(proc[p].ref)
         change == i # 0 /\ txs[i].processing
     IN /\ i # 0 => ~LockedByOther(p, TxKey(i))
        /\ txs' = IF change THEN [txs EXCEPT ![i].processing = FALSE] ELSE txs
        /\ proc' = Touch([proc EXCEPT ![p] =
                            [Finish(@, "threw") EXCEPT !.wrote = change]],
                         p, IF change THEN {TxKey(i)} ELSE {})
  /\ UNCHANGED <<users, orders, bundle, calls, lastDone, loose>>

\* ------------------------------ paystackRoutes.js (unnamed/part_001)
\* verifyTransaction and handleWebhook of the older Paystack routes.  They
\* share their steps; `genuine` is the outcome of the Paystack verification
\* (verify) or of the signature check (webhook).
LegacyOps == {"lgverify", "lgwebhook"}

\* Transaction.findOne and the already-completed test.
LG_Find(p, r, kind, genuine) ==
  /\ CanBegin(p)
  /\ calls' = calls + 1
  /\ LET i == TxByRef(r)
         q == [Begin(p, kind) EXCEPT !.ref = r]
     IN IF ~genuine
        THEN Respond(p, q, IF kind = "lgwebhook" THEN "badSignature"
                           ELSE "verificationFailed")
        ELSE IF i = 0 THEN Respond(p, q, "notFound")
        ELSE IF txs[i].status = "completed" THEN Respond(p, q, "alreadyProcessed")
        ELSE /\ proc' = [proc EXCEPT ![p] =
                  [q EXCEPT !.pc = "lg_user", !.tx = i, !.user = txs[i].user,
                            !.amt = txs[i].amount]]
             /\ UNCHANGED store

\* User.findById; the read may fail, which lands in the handler's catch.
LG_User(p, ok) ==
  /\ proc[p].pc = "lg_user"
  /\ LET r == proc[p]
     IN IF ~ok THEN Respond(p, [r EXCEPT !.faulted = TRUE], "threw")
        ELSE IF ~users[r.user].exists THEN Respond(p, r, "userNotFound")
        ELSE /\ proc' = [proc EXCEPT ![p] =
                  [r EXCEPT !.pc = "lg_save", !.balBefore = users[r.user].balance]]
             /\ UNCHANGED store
  /\ UNCHANGED calls

\* Where the handler stands once one of the two saves has settled.
LG_After(r, other) ==
  IF r.pc = "lg_save" THEN [r EXCEPT !.pc = other]
  ELSE Finish(r, IF r.faulted THEN "threw" ELSE "ok")

\* Promise.all([transaction.save(), user.save()]), first half:
\* transaction.save() sets status, balanceBefore and balanceAfter.
LG_SaveTx(p, ok) ==
  /\ proc[p].pc \in {"lg_save", "lg_saveduser"}
  /\ ~LockedByOther(p, TxKey(proc[p].tx))
  /\ LET r == proc[p]
     IN IF ok
        THEN /\ txs' = [txs EXCEPT ![r.tx].status = "completed",
                                   ![r.tx].balanceBefore = r.balBefore,
                                   ![r.tx].balanceAfter = r.balBefore + r.amt]
             /\ lastDone' = r.tx
             /\ proc' = Touch([proc EXCEPT ![p] =
                                 LG_After([r EXCEPT !.wrote = TRUE], "lg_savedtx")],
                              p, {TxKey(r.tx)})
        ELSE /\ proc' = [proc EXCEPT ![p] =
                           LG_After([r EXCEPT !.faulted = TRUE], "lg_savedtx")]
             /\ UNCHANGED <<txs, lastDone>>
  /\ UNCHANGED <<users, orders, bundle, calls, loose>>

\* Second half: user.save() sets wallet.balance to the value computed from
\* the handler's own read.
LG_SaveUser(p, ok) ==
  /\ proc[p].pc \in {"lg_save", "lg_savedtx"}
  /\ ~LockedByOther(p, UserKey(proc[p].user))
  /\ LET r == proc[p]
     IN IF ok
        THEN /\ users' = WriteBalance(users, r.user, r.balBefore + r.amt, r.op)
             /\ proc' = Touch([proc EXCEPT ![p] =
                                 LG_After([r EXCEPT !.wrote = TRUE], "lg_saveduser")],
                              p, {UserKey(r.user)})
        ELSE /\ proc' = [proc EXCEPT ![p] =
                           LG_After([r EXCEPT !.faulted = TRUE], "lg_saveduser")]
             /\ UNCHANGED users
  /\ UNCHANGED <<txs, orders, bundle, calls, lastDone, loose>>

\* The filter of cleanupStuckTransactions; `old` says whether
\* processingStartedAt lies more than thirty minutes back.
StuckFilter(t, old) == t.processing /\ old /\ t.status = "pending"

\* POST /cleanup-stuck, the only caller of cleanupStuckTransactions:
\* Transaction.updateMany(filter, { $unset: processing... }), no session.
CleanupStuck(p, old) ==
  /\ CanBegin(p)
  /\ calls' = calls + 1
  /\ LET hit == {i \in 1..Len(txs) : StuckFilter(txs[i], old)}
     IN /\ \A i \in hit : ~LockedByOther(p, TxKey(i))
        /\ txs' = [i \in 1..Len(txs) |->
                     IF i \in hit THEN [txs[i] EXCEPT !.processing = FALSE]
                     ELSE txs[i]]
        /\ proc' = Touch([proc EXCEPT ![p] =
                            [Finish(Begin(p, "sweep"), "swept") EXCEPT
                               !.wrote = (hit # {})]],
                         p, {TxKey(i) : i \in hit})
  /\ UNCHANGED <<users, orders, bundle, lastDone, loose>>

\* DELETE /users/:userId (page.js): User.findByIdAndDelete.
DeleteUser(u) ==
  /\ users[u].exists
  /\ \A p \in Procs : UserKey(u) \notin proc[p].locks
  /\ users' = [users EXCEPT ![u].exists = FALSE]
  /\ proc' = [q \in Procs |->
                IF proc[q].snap THEN [proc[q] EXCEPT !.dirty = @ \cup {UserKey(u)}]
                ELSE proc[q]]
  /\ UNCHANGED <<txs, orders, bundle, calls, lastDone, loose>>

\* POST /login (Auth.js) hands a token to approved users only, and the
\* order routes are behind it.
Authenticated(u) == users[u].exists /\ users[u].approved

\* POST /users/:userId/approve (page.js): user.approveUser(); user.save().
ApproveUser(u) ==
  /\ users[u].exists
  /\ ~users[u].approved
  /\ \A p \in Procs : UserKey(u) \notin proc[p].locks
  /\ users' = [users EXCEPT ![u].approved = TRUE]
  /\ proc' = [q \in Procs |->
                IF proc[q].snap THEN [proc[q] EXCEPT !.dirty = @ \cup {UserKey(u)}]
                ELSE proc[q]]
  /\ UNCHANGED <<txs, orders, bundle, calls, lastDone, loose>>

\* ------------------------------------------- admin credit / debit (page.js)
\* (mutant) wallet routes without the approval test
NotApprovedIgnored(usr) == FALSE

\* user.approvalStatus !== 'approved'
NotApproved(usr) == ~usr.approved

\* POST /users/:userId/wallet/deposit and /debit up to the balance check.
AW_Read(p, u, kind, amt) ==
  /\ CanBegin(p)
  /\ calls' = calls + 1
  /\ LET r == [Begin(p, kind) EXCEPT !.user = u, !.amt = amt]
     IN IF ~users[u].exists THEN Respond(p, r, "userNotFound")
        ELSE IF NotApproved(users[u]) THEN Respond(p, r, "notApproved")
        ELSE IF kind = "debit" /\ users[u].balance < amt
        THEN Respond(p, r, "insufficient")
        ELSE /\ proc' = [proc EXCEPT ![p] =
                  [r EXCEPT !.pc = "aw_savetx",
                            !.balBefore = users[u].balance,
                            !.seen = users[u].debits]]
             /\ UNCHANGED store

RECURSIVE SalesOf(_, _)
\* $match type 'purchase', $group by user, $sum of amount (the Transactions
\* of the model are all younger than six days).
SalesOf(s, u) ==
  IF s = <<>> THEN 0
  ELSE (IF Head(s).type = "purchase" /\ Head(s).user = u THEN Head(s).amount ELSE 0)
       + SalesOf(Tail(s), u)

\* POST /reward-top-performers for performer u with a percentage of 100:
\* the aggregate over the purchases, User.findById, the new balance.
RW_Read(p, u) ==
  /\ CanBegin(p)
  /\ calls' = calls + 1
  /\ LET r == [Begin(p, "reward") EXCEPT !.user = u, !.amt = SalesOf(txs, u)]
     IN IF ~\E i \in 1..Len(txs) : txs[i].type = "purchase" /\ txs[i].user = u
        THEN Respond(p, r, "noPerformers")
        ELSE IF ~users[u].exists THEN Respond(p, r, "userNotFound")
        ELSE /\ proc' = [proc EXCEPT ![p] =
                  [r EXCEPT !.pc = "aw_savetx",
                            !.balBefore = users[u].balance,
                            !.seen = users[u].debits]]
             /\ UNCHANGED store

\* The Transaction type each admin wallet route records.
AdminTxType(op) ==
  IF op = "credit" THEN "deposit" ELSE IF op = "reward" THEN "reward" ELSE "debit"

\* await transaction.save(): the completed Transaction, no session.
AW_SaveTxRef(p, ref) ==
  /\ proc[p].pc = "aw_savetx"
  /\ LET r == [proc[p] EXCEPT !.ref = ref]
         after == IF r.op = "debit" THEN r.balBefore - r.amt
                  ELSE r.balBefore + r.amt
     IN IF RefTaken(ref) THEN Respond(p, r, "duplicate")
        ELSE /\ txs' = Append(txs, [NewTx(r.user, AdminTxType(r.op),
                                      r.amt, "completed", r.balBefore, after,
                                      r.req, FALSE)
                                    EXCEPT !.reference = ref])
             /\ lastDone' = Len(txs) + 1
             /\ proc' = [proc EXCEPT ![p] = [r EXCEPT !.pc = "aw_saveuser",
                                               !.tx = Len(txs) + 1, !.wrote = TRUE]]
             /\ UNCHANGED <<users, orders, bundle, loose>>
  /\ UNCHANGED calls

\* The same with a reference nothing else has, the usual case.
AW_SaveTx(p) == AW_SaveTxRef(p, Len(txs) + 1)

\* await user.save(): $set wallet.balance to the value computed from the
\* balance read at the start; the write can fail (ok = FALSE).
AW_SaveUser(p, ok) ==
  /\ proc[p].pc = "aw_saveuser"
  /\ ~LockedByOther(p, UserKey(proc[p].user))
  /\ LET r == proc[p]
     IN IF ~ok
        THEN /\ proc' = [proc EXCEPT ![p] = [Finish(@, "threw") EXCEPT !.faulted = TRUE]]
             /\ UNCHANGED store
        ELSE /\ users' = WriteBalance(users, r.user, txs[r.tx].balanceAfter, r.op)
             /\ txs' = [txs EXCEPT ![r.tx].applied = TRUE]
             /\ proc' = Touch([proc EXCEPT ![p] =
                                 [Finish(@, "ok") EXCEPT
                                    !.stale = (users[r.user].debits # r.seen)]],
                              p, {UserKey(r.user)})
             /\ UNCHANGED <<orders, bundle, lastDone, loose>>
  /\ UNCHANGED calls

\* ----------------------------------------- POST /placeorder (orders.js)
\* `api` says whether the bundle type goes to the provider (Hubnet).
\* The stock flags of the bundle are read first, outside any session.
PO_ReadBundle(p, u, price, api) ==
  /\ CanBegin(p)
  /\ calls' = calls + 1
  /\ LET r == [Begin(p, "placeorder") EXCEPT !.user = u, !.amt = price,
                                               !.qty = 1, !.api = api,
                                               !.sawAvail = bundle.available]
     IN IF bundle.isOutOfStock \/ ~bundle.isInStock
        THEN Respond(p, r, "outOfStock")
        ELSE /\ proc' = [proc EXCEPT ![p] = [r EXCEPT !.pc = "po_readuser"]]
             /\ UNCHANGED store

\* User.findById and the balance check, still outside the session.
PO_ReadUser(p) ==
  /\ proc[p].pc = "po_readuser"
  /\ LET r == proc[p]
         usr == users[r.user]
     IN IF ~usr.exists THEN Respond(p, r, "userNotFound")
        ELSE IF usr.balance < r.amt THEN Respond(p, r, "insufficient")
        ELSE /\ proc' = [proc EXCEPT ![p] =
                  [r EXCEPT !.pc = "po_provider", !.balBefore = usr.balance,
                            !.seen = usr.debits]]
             /\ UNCHANGED store
  /\ UNCHANGED calls

\* (mutant) the provider's answer is never looked at
ProviderFailedIgnored(resp) == FALSE

\* !hubnetResponse.ok, or fetch threw (network failure, timeout).
ProviderFailed(resp) == resp # "ok"

Responses == {"ok", "rejected", "error"}

\* orderReference: { unique: true }: a save of an Order meets a stored
\* Order, or one another session is saving, with the same reference.
OrderRefTaken(p, ref) ==
  \/ \E i \in 1..Len(orders) : orders[i].ref = ref
  \/ \E q \in Procs \ {p} :
        \E k \in 1..Len(proc[q].stOrders) : proc[q].stOrders[k].ref = ref

\* startTransaction, the order reference (a random number), then the
\* provider call with that reference; on failure abortTransaction,
\* otherwise newOrder.save({session}) and transaction.save({session}).
PO_ProviderRef(p, resp, ref) ==
  /\ proc[p].pc = "po_provider"
  /\ LET r == [proc[p] EXCEPT !.resp = IF proc[p].api THEN resp ELSE "none",
                              !.oref = ref,
                              !.sub = IF proc[p].api THEN ref ELSE 0]
         s == BeginSnap(r)
     IN IF r.api /\ ProviderFailed(resp)
        THEN Respond(p, r, "providerFailed")
        ELSE IF OrderRefTaken(p, ref) THEN Respond(p, r, "threw")
        ELSE /\ proc' = [proc EXCEPT ![p] =
                  [s EXCEPT !.pc = "po_saveuser",
                     !.stOrders = <<[NewOrder(r.user, r.amt, "pending", r.qty, r.req)
                                       EXCEPT !.ref = ref]>>,
                     !.stTxs = <<NewTx(r.user, "purchase", r.amt, "completed",
                                       r.balBefore, r.balBefore - r.amt,
                                       r.req, TRUE)>>]]
             /\ UNCHANGED store
  /\ UNCHANGED calls

\* The same with a reference nothing else has.
PO_Provider(p, resp) == PO_ProviderRef(p, resp, FreshOrderRef(proc[p].req))

\* user.save({session}): $set wallet.balance, computed from the balance read
\* before the session; a write conflict throws and the catch aborts.
PO_SaveUser(p) ==
  /\ proc[p].pc = "po_saveuser"
  /\ LET r == proc[p]
         k == UserKey(r.user)
     IN IF CanWrite(p, k)
        THEN /\ proc' = [proc EXCEPT ![p] =
                  [r EXCEPT !.pc = "po_commit", !.locks = @ \cup {k},
                            !.stUser = <<r.balBefore - r.amt>>,
                            !.stale = (users[r.user].debits # r.seen)]]
             /\ UNCHANGED store
        ELSE Respond(p, r, "threw")
  /\ UNCHANGED calls

PO_Commit(p) ==
  /\ proc[p].pc = "po_commit"
  /\ CommitSession(p, "ok")

\* ------------------------------------ POST /orders/place (developer.js)
\* User.findById and the balance check, before the session; the route does
\* not look at the stock.  `api` says whether the bundle type goes to the
\* provider (mtnup2u).
DV_ReadUser(p, u, price, api) ==
  /\ CanBegin(p)
  /\ calls' = calls + 1
  /\ LET r == [Begin(p, "devorder") EXCEPT !.user = u, !.amt = price,
                                             !.qty = 1, !.api = api]
         usr == users[u]
     IN IF ~usr.exists THEN Respond(p, r, "userNotFound")
        ELSE IF usr.balance < price THEN Respond(p, r, "insufficient")
        ELSE /\ proc' = [proc EXCEPT ![p] =
                  [r EXCEPT !.pc = "dv_provider", !.balBefore = usr.balance,
                            !.seen = usr.debits]]
             /\ UNCHANGED store

\* return res.status(...) inside the try block: the handler is over and
\* its session is left as it is.
Return(r, res) ==
  [Finish(r, res) EXCEPT !.session = r.session]

\* if (!hubnetResponse.ok) return res.status(400), and the same in
\* catch (apiError).
DV_ProviderFailure(p, r) ==
  /\ proc' = [proc EXCEPT ![p] = Return(r, "providerFailed")]
  /\ UNCHANGED store

\* startSession, startTransaction, the order reference and the provider
\* call; then newOrder.save({session}) and transaction.save({session}).
DV_Provider(p, resp) ==
  /\ proc[p].pc = "dv_provider"
  /\ LET ref == FreshOrderRef(proc[p].req)
         r == [proc[p] EXCEPT !.resp = IF proc[p].api THEN resp ELSE "none",
                              !.oref = ref,
                              !.sub = IF proc[p].api THEN ref ELSE 0,
                              !.session = "inTransaction"]
         s == BeginSnap(r)
     IN IF r.api /\ ProviderFailed(resp)
        THEN DV_ProviderFailure(p, r)
        ELSE IF OrderRefTaken(p, ref) THEN Respond(p, r, "threw")
        ELSE /\ proc' = [proc EXCEPT ![p] =
                  [s EXCEPT !.pc = "dv_saveuser",
                     !.stOrders = <<NewOrder(r.user, r.amt, "pending", r.qty, r.req)>>,
                     !.stTxs = <<NewTx(r.user, "purchase", r.amt, "completed",
                                       r.balBefore, r.balBefore - r.amt,
                                       r.req, TRUE)>>]]
             /\ UNCHANGED store
  /\ UNCHANGED calls

\* user.wallet.balance -= price; user.save({session}); a write conflict
\* throws and the catch aborts.
DV_SaveUser(p) ==
  /\ proc[p].pc = "dv_saveuser"
  /\ LET r == proc[p]
         k == UserKey(r.user)
     IN IF CanWrite(p, k)
        THEN /\ proc' = [proc EXCEPT ![p] =
                  [r EXCEPT !.pc = "dv_commit", !.locks = @ \cup {k},
                            !.stUser = <<r.balBefore - r.amt>>,
                            !.stale = (users[r.user].debits # r.seen)]]
             /\ UNCHANGED store
        ELSE Respond(p, r, "threw")
  /\ UNCHANGED calls

\* commitTransaction and endSession.
DV_Commit(p) ==
  /\ proc[p].pc = "dv_commit"
  /\ CommitSession(p, "ok")

\* --------------------------------------- POST /bulk-purchase (orders.js)
\* User.findById (no session argument); there is no balance check.
BP_ReadUser(p, u, total) ==
  /\ CanBegin(p)
  /\ calls' = calls + 1
  /\ LET r == [Begin(p, "bulk") EXCEPT !.user = u, !.amt = total, !.qty = 1]
     IN IF ~users[u].exists THEN Respond(p, r, "userNotFound")
        ELSE /\ proc' = [proc EXCEPT ![p] =
                  [r EXCEPT !.pc = "bp_save", !.balBefore = users[u].balance,
                            !.seen = users[u].debits]]
             /\ UNCHANGED store

\* order.save({session}) for each order, then transaction.save({session}).
BP_Save(p) ==
  /\ proc[p].pc = "bp_save"
  /\ LET r == BeginSnap(proc[p])
     IN proc' = [proc EXCEPT ![p] =
          [r EXCEPT !.pc = "bp_saveuser",
             !.stOrders = <<NewOrder(r.user, r.amt, "pending", r.qty, r.req)>>,
             !.stTxs = <<NewTx(r.user, "purchase", r.amt, "completed",
                               r.balBefore, r.balBefore - r.amt, r.req, TRUE)>>]]
  /\ UNCHANGED <<store, calls>>

\* user.wallet.balance -= totalAmount; user.save({session}).
BP_SaveUser(p) ==
  /\ proc[p].pc = "bp_saveuser"
  /\ LET r == proc[p]
         k == UserKey(r.user)
     IN IF CanWrite(p, k)
        THEN /\ proc' = [proc EXCEPT ![p] =
                  [r EXCEPT !.pc = "bp_commit", !.locks = @ \cup {k},
                            !.stUser = <<r.balBefore - r.amt>>,
                            !.stale = (users[r.user].debits # r.seen)]]
             /\ UNCHANGED store
        ELSE Respond(p, r, "threw")
  /\ UNCHANGED calls

BP_Commit(p) ==
  /\ proc[p].pc = "bp_commit"
  /\ CommitSession(p, "ok")

\* ------------------------------------------ PUT /:id/status (orders.js)
Statuses == {"pending", "processing", "completed", "failed", "refunded"}

\* Order.findById and the same-status rejection.
SU_ReadOrder(p, o, status) ==
  /\ CanBegin(p)
  /\ calls' = calls + 1
  /\ o \in 1..Len(orders)
  /\ LET r == [Begin(p, "status") EXCEPT !.order = o, !.status = status,
                  !.user = orders[o].user, !.amt = orders[o].price,
                  !.same = (orders[o].status = status)]
     IN IF orders[o].status = status THEN Respond(p, r, "sameStatus")
        ELSE /\ proc' = [proc EXCEPT ![p] =
                  [r EXCEPT !.pc = IF status = "refunded" THEN "su_readuser"
                                   ELSE "su_saveorder"]]
             /\ UNCHANGED store

\* Refund: User.findById.
SU_ReadUser(p) ==
  /\ proc[p].pc = "su_readuser"
  /\ LET r == proc[p]
     IN proc' = [proc EXCEPT ![p] =
          IF users[r.user].exists
          THEN [r EXCEPT !.pc = "su_saveuser", !.balBefore = users[r.user].balance]
          ELSE [r EXCEPT !.pc = "su_saveorder"]]
  /\ UNCHANGED <<store, calls>>

\* Refund: user.wallet.balance += order.price; user.save().  No Transaction
\* is created for it.
SU_SaveUser(p) ==
  /\ proc[p].pc = "su_saveuser"
  /\ ~LockedByOther(p, UserKey(proc[p].user))
  /\ LET r == proc[p]
     IN /\ users' = WriteBalance(users, r.user, r.balBefore + r.amt, r.op)
        /\ loose' = loose + 1
        /\ orders' = [orders EXCEPT ![r.order].refunds = @ + 1]
        /\ proc' = Touch([proc EXCEPT ![p] =
                            [r EXCEPT !.pc = "su_saveorder", !.wrote = TRUE]],
                         p, {UserKey(r.user)})
  /\ UNCHANGED <<txs, bundle, calls, lastDone>>

\* order.status = status; order.save().
SU_SaveOrder(p) ==
  /\ proc[p].pc = "su_saveorder"
  /\ ~LockedByOther(p, OrderKey(proc[p].order))
  /\ orders' = [orders EXCEPT ![proc[p].order].status = proc[p].status]
  /\ proc' = Touch([proc EXCEPT ![p] = [Finish(@, "ok") EXCEPT !.wrote = TRUE]],
                   p, {OrderKey(proc[p].order)})
  /\ UNCHANGED <<users, txs, bundle, calls, lastDone, loose>>

\* ------------------------------------------ PUT /bulk-status (orders.js)
\* startTransaction; Order.find({ _id: { $in: orderIds } }).session(session)
\* for one order id.  An id that matches nothing answers 404.
BS_Read(p, o, status) ==
  /\ CanBegin(p)
  /\ calls' = calls + 1
  /\ LET r == [Begin(p, "bulkstatus") EXCEPT !.order = o, !.status = status]
     IN IF o \notin 1..Len(orders) THEN Respond(p, r, "notFound")
        ELSE /\ proc' = [proc EXCEPT ![p] =
                  [BeginSnap(r) EXCEPT
                     !.user = orders[o].user, !.amt = orders[o].price,
                     !.same = (orders[o].status = status),
                     !.pc = IF status = "refunded" /\ orders[o].status # "refunded"
                            THEN "bs_refund" ELSE "bs_write"]]
             /\ UNCHANGED store

\* Refund inside the session: User.findById(...).session(session);
\* user.wallet.balance += order.price; user.save({ session }).  A write
\* conflict ends the transaction, and the request with it.
BS_Refund(p) ==
  /\ proc[p].pc = "bs_refund"
  /\ LET r == proc[p]
         k == UserKey(r.user)
     IN IF ~r.snapUsers[r.user].exists
        THEN /\ proc' = [proc EXCEPT ![p] = [r EXCEPT !.pc = "bs_write"]]
             /\ UNCHANGED store
        ELSE IF CanWrite(p, k)
        THEN /\ proc' = [proc EXCEPT ![p] =
                  [r EXCEPT !.pc = "bs_write", !.locks = @ \cup {k},
                            !.stUser = <<r.snapUsers[r.user].balance + r.amt>>]]
             /\ UNCHANGED store
        ELSE Respond(p, r, "threw")
  /\ UNCHANGED calls

\* Order.bulkWrite([{ updateOne: { $set: { status } } }], { session }).
BS_Write(p) ==
  /\ proc[p].pc = "bs_write"
  /\ LET r == proc[p]
         k == OrderKey(r.order)
     IN IF CanWrite(p, k)
        THEN /\ proc' = [proc EXCEPT ![p] =
                  [r EXCEPT !.pc = "bs_commit", !.locks = @ \cup {k},
                            !.stOrd = <<r.status>>]]
             /\ UNCHANGED store
        ELSE Respond(p, r, "threw")
  /\ UNCHANGED calls

BS_Commit(p) ==
  /\ proc[p].pc = "bs_commit"
  /\ CommitSession(p, "ok")

\* ------------------------------------------ bundle stock methods (schema.js)
\* A method either throws or leaves a document to be saved.
Thrown(b) == [ok |-> FALSE, doc |-> b]
Saving(b) == [ok |-> TRUE, doc |-> b]

Max(a, b) == IF a >= b THEN a ELSE b

updateStockStatus(b) ==
  [b EXCEPT !.isInStock = (b.available # 0),
            !.isOutOfStock = (b.available = 0),
            !.isLowStock = (b.available > 0 /\ b.available <= b.lowStockThreshold)]

reserveStock(b, q) ==
  IF b.available < q THEN Thrown(b)
  ELSE Saving(updateStockStatus([b EXCEPT !.available = @ - q,
                                          !.reserved = @ + q]))

confirmReservation(b, q) ==
  IF b.reserved < q THEN Thrown(b)
  ELSE Saving([b EXCEPT !.reserved = @ - q, !.sold = @ + q])

releaseReservation(b, q) ==
  Saving(updateStockStatus([b EXCEPT !.available = @ + q,
                                     !.reserved = Max(0, @ - q)]))

\* An entry of stockUnits.restockHistory (actor, time and reason left out).
HistoryEntry(previous, added) ==
  [previousUnits |-> previous, addedUnits |-> added, newTotal |-> previous + added]

restock(b, units) ==
  IF units <= 0 THEN Thrown(b)
  ELSE Saving(updateStockStatus(
         [b EXCEPT !.restockHistory = Append(@, HistoryEntry(b.available, units)),
                   !.available = @ + units,
                   !.initial = Max(@, b.available + units)]))

adjustStock(b, adjustment) ==
  IF b.available + adjustment < 0 THEN Thrown(b)
  ELSE IF adjustment > 0 THEN restock(b, adjustment)
  ELSE IF adjustment < 0
  THEN Saving(updateStockStatus(
         [b EXCEPT !.available = @ + adjustment,
                   !.restockHistory = Append(@, HistoryEntry(b.available, adjustment))]))
  ELSE Saving(updateStockStatus(b))

\* (mutant) a schema without the min: 0 validators
StockUnitsUnchecked(b) == TRUE

\* The validators of stockUnits (min: 0), run by save().
StockUnitsValid(b) ==
  b.available >= 0 /\ b.initial >= 0 /\ b.reserved >= 0 /\ b.sold >= 0

\* pre('save'): the stock flags follow a modified stockUnits.available.
PreSave(loaded, b) ==
  IF b.available # loaded.available THEN updateStockStatus(b) ELSE b

\* save() sends $set for the modified paths and $push for the entries
\* pushed on an array.
SaveDoc(committed, loaded, b) ==
  [f \in DOMAIN committed |->
     IF f = "restockHistory"
     THEN committed[f] \o SubSeq(b[f], Len(loaded[f]) + 1, Len(b[f]))
     ELSE IF b[f] # loaded[f] THEN b[f] ELSE committed[f]]

\* ------------------------------------------- stock operations (bundle.js)
StockOps ==
  {"restock", "adjust", "set", "outofstock", "instock", "reserve", "confirm",
   "release"}

\* The stock routes that go on beside order placement.
AdminStockOps == {"restock", "instock"}

\* What the route, or the caller of the method, does to the loaded document.
StockApply(kind, b, n) ==
  CASE kind = "restock" -> restock(b, n)
    [] kind = "adjust" -> adjustStock(b, n)
    [] kind = "set" -> IF n - b.available # 0 THEN adjustStock(b, n - b.available)
                       ELSE Saving(b)
    [] kind = "outofstock" ->
         Saving([b EXCEPT !.available = 0, !.isInStock = FALSE,
                          !.isOutOfStock = TRUE, !.isLowStock = FALSE])
    [] kind = "instock" ->
         Saving([b EXCEPT !.isInStock = TRUE, !.isOutOfStock = FALSE,
                          !.isLowStock = (b.available <= b.lowStockThreshold)])
    [] kind = "reserve" -> reserveStock(b, n)
    [] kind = "confirm" -> confirmReservation(b, n)
    [] OTHER -> releaseReservation(b, n)

\* The route's check of its input, then Bundle.findById.
ST_Load(p, kind, n) ==
  /\ CanBegin(p)
  /\ calls' = calls + 1
  /\ LET r == [Begin(p, kind) EXCEPT
                  !.qty = IF kind \in {"outofstock", "instock"} THEN 0 ELSE n]
         bad == \/ kind = "restock" /\ n <= 0
                \/ kind = "adjust" /\ n = 0
                \/ kind = "set" /\ n < 0
     IN IF bad THEN Respond(p, r, "badRequest")
        ELSE /\ proc' = [proc EXCEPT ![p] =
                  [r EXCEPT !.pc = "st_apply", !.snapBundle = <<bundle>>]]
             /\ UNCHANGED store

\* The method on the loaded document and its save(), outside any session.
ST_Apply(p) ==
  /\ proc[p].pc = "st_apply"
  /\ LET r == proc[p]
         loaded == r.snapBundle[1]
         res == StockApply(r.op, loaded, r.qty)
         doc == PreSave(loaded, res.doc)
     IN IF ~res.ok THEN Respond(p, r, "threw")
        ELSE IF ~StockUnitsValid(doc) THEN Respond(p, r, "invalid")
        ELSE /\ ~LockedByOther(p, BundleKey)
             /\ doc.available <= MaxStock
             /\ bundle' = SaveDoc(bundle, loaded, doc)
             /\ proc' = Touch([proc EXCEPT ![p] =
                                 [Finish(r, "ok") EXCEPT !.wrote = TRUE]],
                              p, {BundleKey})
             /\ UNCHANGED <<users, txs, orders, lastDone, loose>>
  /\ UNCHANGED calls

\* reference.toUpperCase()
toUpperCase(ref) == IF ref < 0 THEN 0 - ref ELSE ref

\* ------------------------------------- POST /orders/place (API, part_003)
\* Everything is read in the session, so from one snapshot: the bundle, its
\* stock flags and units, the user and the balance.
\* The order reference comes first: one sent by the developer is looked up
\* as sent among the user's orders and then put in upper case (a reference
\* below zero stands for a lower-case spelling of its absolute value).
API_StartRef(p, u, q, api, raw) ==
  /\ CanBegin(p)
  /\ calls' = calls + 1
  /\ LET r == BeginSnap([Begin(p, "api") EXCEPT !.user = u, !.qty = q,
                                                !.api = api,
                                                !.oref = toUpperCase(raw),
                                                !.sawAvail = bundle.available])
         b == bundle
         total == b.price * q
     IN IF \E i \in 1..Len(orders) : orders[i].ref = raw /\ orders[i].user = u
        THEN Respond(p, r, "referenceExists")
        ELSE IF b.isOutOfStock \/ ~b.isInStock THEN Respond(p, r, "outOfStock")
        ELSE IF b.available < q THEN Respond(p, r, "insufficientStock")
        ELSE IF ~users[u].exists THEN Respond(p, r, "userNotFound")
        ELSE IF users[u].balance < total THEN Respond(p, r, "insufficient")
        ELSE /\ proc' = [proc EXCEPT ![p] =
                  [r EXCEPT !.pc = "api_reserve", !.amt = total,
                            !.balBefore = users[u].balance,
                            !.seen = users[u].debits]]
             /\ UNCHANGED store

\* The same with a reference generated by the route, which nothing else has.
API_Start(p, u, q, api) == API_StartRef(p, u, q, api, FreshOrderRef(calls + 1))

\* bundle.reserveStock(quantity, session); any error aborts.
API_Reserve(p) ==
  /\ proc[p].pc = "api_reserve"
  /\ LET r == proc[p]
         loaded == r.snapBundle[1]
         res == reserveStock(loaded, r.qty)
         doc == PreSave(loaded, res.doc)
     IN IF res.ok /\ StockUnitsValid(doc) /\ CanWrite(p, BundleKey)
        THEN /\ proc' = [proc EXCEPT ![p] =
                  [r EXCEPT !.pc = "api_provider", !.locks = @ \cup {BundleKey},
                            !.stBundle = <<doc>>]]
             /\ UNCHANGED store
        ELSE Respond(p, r, "reserveFailed")
  /\ UNCHANGED calls

\* The provider call (fetch); when it succeeds, newOrder.save({session}) and
\* transaction.save({session}).
API_Provider(p, resp) ==
  /\ proc[p].pc = "api_provider"
  /\ LET r == [proc[p] EXCEPT !.resp = IF proc[p].api THEN resp ELSE "none",
                              !.sub = IF proc[p].api THEN proc[p].oref ELSE 0]
     IN proc' = [proc EXCEPT ![p] =
          IF r.api /\ ProviderFailed(resp) THEN [r EXCEPT !.pc = "api_failed"]
          ELSE IF OrderRefTaken(p, r.oref) THEN Finish(r, "threw")
          ELSE [r EXCEPT !.pc = "api_saveuser",
                  !.stOrders = <<[NewOrder(r.user, r.amt, "pending", r.qty, r.req)
                                    EXCEPT !.ref = r.oref]>>,
                  !.stTxs = <<NewTx(r.user, "purchase", 0 - r.amt, "completed",
                                    r.balBefore, r.balBefore - r.amt,
                                    r.req, TRUE)>>]]
  /\ UNCHANGED <<store, calls>>

\* (mutant) the failure path keeps what the session holds
API_ProviderFailureKept(p) ==
  /\ proc[p].pc = "api_failed"
  /\ CommitSession(p, "providerFailed")

\* catch: bundle.releaseReservation(quantity, session); abortTransaction.
API_ProviderFailure(p) ==
  /\ proc[p].pc = "api_failed"
  /\ LET r == proc[p]
         res == releaseReservation(r.stBundle[1], r.qty)
     IN Respond(p, [r EXCEPT !.stBundle = <<res.doc>>],
                IF StockUnitsValid(res.doc) THEN "providerFailed" ELSE "threw")
  /\ UNCHANGED calls

\* user.wallet.balance -= totalPrice; user.save({session}).
API_SaveUser(p) ==
  /\ proc[p].pc = "api_saveuser"
  /\ LET r == proc[p]
         k == UserKey(r.user)
     IN IF CanWrite(p, k)
        THEN /\ proc' = [proc EXCEPT ![p] =
                  [r EXCEPT !.pc = "api_commit", !.locks = @ \cup {k},
                            !.stUser = <<r.balBefore - r.amt>>,
                            !.stale = (users[r.user].debits # r.seen)]]
             /\ UNCHANGED store
        ELSE Respond(p, r, "threw")
  /\ UNCHANGED calls

API_Commit(p) ==
  /\ proc[p].pc = "api_commit"
  /\ CommitSession(p, "ok")

\* ------------------------------------------------------- specifications
\* `initial` is the balance the run started with (history).
UserWith(b) ==
  [exists |-> TRUE, approved |-> TRUE, balance |-> b, initial |-> b, debits |-> 0]

InitUsers == [u \in UserIds |-> UserWith(0)]

\* A bundle as POST /addbundle creates it, with `n` units of initial stock.
InitBundle(n) ==
  [available |-> n, reserved |-> 0, sold |-> 0, initial |-> n,
   restockHistory |-> IF n > 0 THEN <<HistoryEntry(0, n)>> ELSE <<>>,
   lowStockThreshold |-> 1, price |-> 1,
   isInStock |-> n > 0, isOutOfStock |-> n = 0,
   isLowStock |-> n > 0 /\ n <= 1]

Init ==
  /\ users = InitUsers
  /\ txs = <<>>
  /\ orders = <<>>
  /\ bundle = InitBundle(1)
  /\ proc = [p \in Procs |-> IdleProc]
  /\ calls = 0
  /\ lastDone = 0
  /\ loose = 0

NextDeposit ==
  \/ \E u \in UserIds, a \in Amounts : InitiateDeposit(u, a)
  \/ \E p \in Procs, r \in 1..MaxTx : PSP_Start(p, r)
  \/ \E p \in Procs : PSP_Claim(p)
  \/ \E p \in Procs : PSP_Lookup(p)
  \/ \E p \in Procs, ok \in BOOLEAN : PSP_Complete(p, ok)
  \/ \E p \in Procs : PSP_UpdateUser(p)
  \/ \E p \in Procs : PSP_Commit(p)
  \/ \E p \in Procs : PSP_Catch(p)
  \/ \E p \in Procs : PSP_Cleanup(p)

SpecDeposit == Init /\ [][NextDeposit]_vars

\* Deposit reconciliation while an admin may delete the depositing user.
NextClaim ==
  \/ NextDeposit
  \/ \E u \in UserIds : DeleteUser(u)

SpecClaim == Init /\ [][NextClaim]_vars

\* Deposit reconciliation with the admin's cleanup endpoint.
NextSweep ==
  \/ NextDeposit
  \/ \E p \in Procs, old \in BOOLEAN : CleanupStuck(p, old)

\* Every deposit trigger: the calls of processSuccessfulPayment and the
\* older verify and webhook handlers.
NextTriggers ==
  \/ NextDeposit
  \/ \E p \in Procs, r \in 1..MaxTx, k \in LegacyOps, g \in BOOLEAN :
        LG_Find(p, r, k, g)
  \/ \E p \in Procs, ok \in BOOLEAN : LG_User(p, ok)
  \/ \E p \in Procs, ok \in BOOLEAN : LG_SaveTx(p, ok)
  \/ \E p \in Procs, ok \in BOOLEAN : LG_SaveUser(p, ok)

SpecTriggers == Init /\ [][NextTriggers]_vars

\* What a handler does once its request has arrived.
HandlerStep(p) ==
  \/ PSP_Claim(p)
  \/ PSP_Lookup(p)
  \/ \E ok \in BOOLEAN : PSP_Complete(p, ok)
  \/ PSP_UpdateUser(p)
  \/ PSP_Commit(p)
  \/ PSP_Catch(p)
  \/ PSP_Cleanup(p)

\* The event loop resumes every handler whose awaited call has returned.
\* Requests arrive as their senders please: nothing in index.js schedules a
\* deposit trigger or the cleanup (its cron jobs call the order status
\* endpoints only).
SpecSweep ==
  Init /\ [][NextSweep]_vars /\ \A p \in Procs : WF_vars(HandlerStep(p))

\* Wallet traffic on a user who starts with any balance up to MaxAmount.
InitWallet ==
  /\ \E b \in 0..MaxAmount : users = [u \in UserIds |-> UserWith(b)]
  /\ txs = <<>>
  /\ orders = <<>>
  /\ bundle = InitBundle(1)
  /\ proc = [p \in Procs |-> IdleProc]
  /\ calls = 0
  /\ lastDone = 0
  /\ loose = 0

NextWallet ==
  \/ \E p \in Procs, u \in UserIds, k \in {"credit", "debit"}, a \in Amounts :
        AW_Read(p, u, k, a)
  \/ \E p \in Procs : AW_SaveTx(p)
  \/ \E p \in Procs, ok \in BOOLEAN : AW_SaveUser(p, ok)
  \/ \E p \in Procs, u \in UserIds, a \in Amounts, api \in BOOLEAN :
        PO_ReadBundle(p, u, a, api)
  \/ \E p \in Procs : PO_ReadUser(p)
  \/ \E p \in Procs, resp \in Responses : PO_Provider(p, resp)
  \/ \E p \in Procs : PO_SaveUser(p)
  \/ \E p \in Procs : PO_Commit(p)
  \/ \E p \in Procs, u \in UserIds, a \in Amounts : BP_ReadUser(p, u, a)
  \/ \E p \in Procs : BP_Save(p)
  \/ \E p \in Procs : BP_SaveUser(p)
  \/ \E p \in Procs : BP_Commit(p)
  \/ \E p \in Procs, o \in 1..MaxCalls, st \in Statuses : SU_ReadOrder(p, o, st)
  \/ \E p \in Procs : SU_ReadUser(p)
  \/ \E p \in Procs : SU_SaveUser(p)
  \/ \E p \in Procs : SU_SaveOrder(p)
  \/ \E u \in UserIds, a \in Amounts : InitiateDeposit(u, a)
  \/ \E p \in Procs, r \in 1..MaxTx : PSP_Start(p, r)
  \/ \E p \in Procs : PSP_Claim(p)
  \/ \E p \in Procs : PSP_Lookup(p)
  \/ \E p \in Procs, ok \in BOOLEAN : PSP_Complete(p, ok)
  \/ \E p \in Procs : PSP_UpdateUser(p)
  \/ \E p \in Procs : PSP_Commit(p)
  \/ \E p \in Procs : PSP_Catch(p)
  \/ \E p \in Procs : PSP_Cleanup(p)

SpecWallet == InitWallet /\ [][NextWallet]_vars

\* Order placement through both routes, with stock administration going on.
InitOrder ==
  /\ \E b \in 0..MaxAmount : users = [u \in UserIds |-> UserWith(b)]
  /\ \E n \in 0..MaxStock : bundle = InitBundle(n)
  /\ txs = <<>>
  /\ orders = <<>>
  /\ proc = [p \in Procs |-> IdleProc]
  /\ calls = 0
  /\ lastDone = 0
  /\ loose = 0

NextApi ==
  \/ \E p \in Procs, u \in UserIds, q \in Quantities, api \in BOOLEAN :
        API_Start(p, u, q, api)
  \/ \E p \in Procs : API_Reserve(p)
  \/ \E p \in Procs, resp \in Responses : API_Provider(p, resp)
  \/ \E p \in Procs : API_ProviderFailure(p)
  \/ \E p \in Procs : API_SaveUser(p)
  \/ \E p \in Procs : API_Commit(p)

NextOrder ==
  \/ NextApi
  \/ \E p \in Procs, u \in UserIds, a \in Amounts, api \in BOOLEAN :
        PO_ReadBundle(p, u, a, api)
  \/ \E p \in Procs : PO_ReadUser(p)
  \/ \E p \in Procs, resp \in Responses : PO_Provider(p, resp)
  \/ \E p \in Procs : PO_SaveUser(p)
  \/ \E p \in Procs : PO_Commit(p)
  \/ \E p \in Procs, k \in AdminStockOps, n \in Quantities : ST_Load(p, k, n)
  \/ \E p \in Procs : ST_Apply(p)

SpecOrder == InitOrder /\ [][NextOrder]_vars

\* Stock operations on a bundle with any stock up to MaxStock; the buyer can
\* afford every order.
InitStock ==
  /\ users = [u \in UserIds |-> UserWith(MaxAmount * MaxQty)]
  /\ \E n \in 0..MaxStock : bundle = InitBundle(n)
  /\ txs = <<>>
  /\ orders = <<>>
  /\ proc = [p \in Procs |-> IdleProc]
  /\ calls = 0
  /\ lastDone = 0
  /\ loose = 0

\* Every stock operation, from the routes, the methods and the API orders.
NextStock ==
  \/ NextApi
  \/ \E p \in Procs, k \in StockOps, n \in Quantities : ST_Load(p, k, n)
  \/ \E p \in Procs : ST_Apply(p)

SpecStock == InitStock /\ [][NextStock]_vars

\* The admin wallet routes on a user who is approved, or still waits for
\* approval with an empty wallet, and the purchases of a logged-in user.
InitAdmin ==
  /\ \E a \in BOOLEAN, b \in 0..MaxAmount :
        /\ (~a => b = 0)
        /\ users = [u \in UserIds |-> [UserWith(b) EXCEPT !.approved = a]]
  /\ txs = <<>>
  /\ orders = <<>>
  /\ bundle = InitBundle(1)
  /\ proc = [p \in Procs |-> IdleProc]
  /\ calls = 0
  /\ lastDone = 0
  /\ loose = 0

NextAdmin ==
  \/ \E u \in UserIds : ApproveUser(u)
  \/ \E p \in Procs, u \in UserIds, k \in {"credit", "debit"}, a \in Amounts :
        AW_Read(p, u, k, a)
  \/ \E p \in Procs, u \in UserIds : RW_Read(p, u)
  \/ \E p \in Procs : AW_SaveTx(p)
  \/ \E p \in Procs, ok \in BOOLEAN : AW_SaveUser(p, ok)
  \/ \E p \in Procs, u \in UserIds, a \in Amounts :
        Authenticated(u) /\ BP_ReadUser(p, u, a)
  \/ \E p \in Procs : BP_Save(p)
  \/ \E p \in Procs : BP_SaveUser(p)
  \/ \E p \in Procs : BP_Commit(p)

SpecAdmin == InitAdmin /\ [][NextAdmin]_vars

\* Admin credits and reward payouts on an approved user who has bought
\* nothing yet, or one bundle of price 1 through POST /bulk-purchase.
InitCredit ==
  /\ \E b \in 0..MaxAmount, bought \in BOOLEAN :
        /\ users = [u \in UserIds |->
                      [UserWith(b) EXCEPT !.debits = IF bought THEN 1 ELSE 0]]
        /\ txs = IF bought
                 THEN <<[NewTx(1, "purchase", 1, "completed", b + 1, b, 0, TRUE)
                           EXCEPT !.reference = 1]>>
                 ELSE <<>>
        /\ orders = IF bought THEN <<NewOrder(1, 1, "pending", 1, 0)>> ELSE <<>>
  /\ bundle = InitBundle(1)
  /\ proc = [p \in Procs |-> IdleProc]
  /\ calls = 0
  /\ lastDone = 0
  /\ loose = 0

NextCredit ==
  \/ \E p \in Procs, u \in UserIds, a \in Amounts : AW_Read(p, u, "credit", a)
  \/ \E p \in Procs, u \in UserIds : RW_Read(p, u)
  \/ \E p \in Procs : AW_SaveTx(p)
  \/ \E p \in Procs : AW_SaveUser(p, TRUE)

SpecCredit == InitCredit /\ [][NextCredit]_vars

\* API orders, which reserve stock, and the Editor's status updates on them.
NextFulfil ==
  \/ NextApi
  \/ \E p \in Procs, o \in 1..MaxCalls, st \in Statuses : SU_ReadOrder(p, o, st)
  \/ \E p \in Procs : SU_ReadUser(p)
  \/ \E p \in Procs : SU_SaveUser(p)
  \/ \E p \in Procs : SU_SaveOrder(p)
  \/ \E p \in Procs, o \in 1..MaxCalls, st \in Statuses : BS_Read(p, o, st)
  \/ \E p \in Procs : BS_Refund(p)
  \/ \E p \in Procs : BS_Write(p)
  \/ \E p \in Procs : BS_Commit(p)

SpecFulfil == InitOrder /\ [][NextFulfil]_vars

\* What Math.floor(1000 + Math.random() * 900000) can return.
OrderRefs == 1..NumOrderRefs

\* References as a developer can spell them: in upper or in lower case.
RawRefs == OrderRefs \cup {0 - r : r \in OrderRefs}

\* Order placement with the references the routes work with.
NextSubmit ==
  \/ \E p \in Procs, u \in UserIds, a \in Amounts, api \in BOOLEAN :
        PO_ReadBundle(p, u, a, api)
  \/ \E p \in Procs : PO_ReadUser(p)
  \/ \E p \in Procs, resp \in Responses, ref \in OrderRefs :
        PO_ProviderRef(p, resp, ref)
  \/ \E p \in Procs : PO_SaveUser(p)
  \/ \E p \in Procs : PO_Commit(p)
  \/ \E p \in Procs, u \in UserIds, q \in Quantities, api \in BOOLEAN,
        raw \in RawRefs : API_StartRef(p, u, q, api, raw)
  \/ \E p \in Procs : API_Reserve(p)
  \/ \E p \in Procs, resp \in Responses : API_Provider(p, resp)
  \/ \E p \in Procs : API_ProviderFailure(p)
  \/ \E p \in Procs : API_SaveUser(p)
  \/ \E p \in Procs : API_Commit(p)

SpecSubmit == InitOrder /\ [][NextSubmit]_vars

\* Order placement through the web route and through the developer route.
NextSession ==
  \/ \E p \in Procs, u \in UserIds, a \in Amounts, api \in BOOLEAN :
        PO_ReadBundle(p, u, a, api)
  \/ \E p \in Procs : PO_ReadUser(p)
  \/ \E p \in Procs, resp \in Responses : PO_Provider(p, resp)
  \/ \E p \in Procs : PO_SaveUser(p)
  \/ \E p \in Procs : PO_Commit(p)
  \/ \E p \in Procs, u \in UserIds, a \in Amounts, api \in BOOLEAN :
        DV_ReadUser(p, u, a, api)
  \/ \E p \in Procs, resp \in Responses : DV_Provider(p, resp)
  \/ \E p \in Procs : DV_SaveUser(p)
  \/ \E p \in Procs : DV_Commit(p)

SpecSession == InitOrder /\ [][NextSession]_vars

\* References as the routes generate them ('DEP-' + Date.now() + '-' + a
\* random number): drawn from a set small enough for two to coincide.
Refs == 1..2

\* A user who can be debited once.
InitReference ==
  /\ users = [u \in UserIds |-> UserWith(1)]
  /\ txs = <<>>
  /\ orders = <<>>
  /\ bundle = InitBundle(1)
  /\ proc = [p \in Procs |-> IdleProc]
  /\ calls = 0
  /\ lastDone = 0
  /\ loose = 0

\* Admin credits and debits, deposit initiations and deposit triggers whose
\* references may coincide; the store does not fail here.
NextReference ==
  \/ \E p \in Procs, u \in UserIds, k \in {"credit", "debit"}, a \in Amounts :
        AW_Read(p, u, k, a)
  \/ \E p \in Procs, ref \in Refs : AW_SaveTxRef(p, ref)
  \/ \E p \in Procs : AW_SaveUser(p, TRUE)
  \/ \E u \in UserIds, a \in Amounts, ref \in Refs : InitiateDepositRef(u, a, ref)
  \/ \E p \in Procs, r \in Refs : PSP_Start(p, r)
  \/ \E p \in Procs : PSP_Claim(p)
  \/ \E p \in Procs : PSP_Lookup(p)
  \/ \E p \in Procs : PSP_Complete(p, TRUE)
  \/ \E p \in Procs : PSP_UpdateUser(p)
  \/ \E p \in Procs : PSP_Commit(p)
  \/ \E p \in Procs : PSP_Catch(p)
  \/ \E p \in Procs : PSP_Cleanup(p)

SpecReference == InitReference /\ [][NextReference]_vars

\* ------------------------------------ GET /verify (deposite.js 345-509)
\* What the provider's verify call comes back with.
PaystackOutcomes == {"success", "notSuccessful", "timeout"}

\* verifyTransaction up to the provider call: Transaction.findOne by
\* reference, 404 when absent, 200 when completed, 202 while a fresh
\* processing flag is stored.  The client may be repeating a request that
\* timed out.
VT_Find(p, r) ==
  /\ CanBegin(p)
  /\ calls' = calls + 1
  /\ LET i == TxByRef(r)
         req == [Begin(p, "verify") EXCEPT
                   !.ref = r,
                   !.retry = (proc[p].op = "verify" /\ proc[p].ref = r
                              /\ proc[p].result = "408")]
     IN IF i = 0 THEN Respond(p, req, "404")
        ELSE IF txs[i].status = "completed" THEN Respond(p, req, "alreadyProcessed")
        ELSE IF txs[i].processing THEN Respond(p, req, "202")
        ELSE IF txs[i].status # "pending" THEN Respond(p, req, "400")
        ELSE /\ proc' = [proc EXCEPT ![p] = [req EXCEPT !.pc = "vt_paystack"]]
             /\ UNCHANGED store

\* (mutant) a verification that marks the Transaction failed when the
\* provider call times out
VT_PaystackMarking(p, out) ==
  /\ proc[p].pc = "vt_paystack"
  /\ out = "timeout"
  /\ LET i == TxByRef(proc[p].ref)
     IN /\ ~LockedByOther(p, TxKey(i))
        /\ txs' = [txs EXCEPT ![i].status = "failed"]
        /\ proc' = Touch([proc EXCEPT ![p] =
                            [Finish(@, "408") EXCEPT !.wrote = TRUE]],
                         p, {TxKey(i)})
  /\ UNCHANGED <<users, orders, bundle, calls, lastDone, loose>>

\* axios.get(.../transaction/verify/reference) with a 10 second timeout: a
\* timeout is answered 408 from the catch, a payment that is not successful
\* 400, and a successful one goes on into processSuccessfulPayment, whose
\* outcome is the answer (the paymentDetails written afterwards are not
\* part of the model's Transaction).
VT_Paystack(p, out) ==
  /\ proc[p].pc = "vt_paystack"
  /\ LET r == proc[p]
         i == TxByRef(r.ref)
     IN IF out = "timeout" THEN Respond(p, r, "408")
        ELSE IF out = "notSuccessful" THEN Respond(p, r, "400")
        ELSE /\ proc' = [proc EXCEPT ![p] =
                  [r EXCEPT !.pc = "psp_claim",
                            !.startCompleted = (i # 0 /\ txs[i].status = "completed"),
                            !.startPending = (i # 0 /\ txs[i].status = "pending")]]
             /\ UNCHANGED store
  /\ UNCHANGED calls

\* The verification endpoint next to the other deposit triggers.
NextVerify ==
  \/ NextDeposit
  \/ \E p \in Procs, r \in 1..MaxTx : VT_Find(p, r)
  \/ \E p \in Procs, out \in PaystackOutcomes : VT_Paystack(p, out)

SpecVerify == Init /\ [][NextVerify]_vars

\* ------------------------------- retry wrapper (connection.js, part_000)
\* maxRetries = 3
MaxRetries == 3

NoError == [name |-> "none", msg |-> "none"]

\* The errors a store operation throws: the driver's error name, and what
\* its message says.
Errors ==
  [name : {"MongoServerSelectionError", "MongoNetworkError",
           "MongoNetworkTimeoutError", "MongoWriteConcernError", "MongoError"},
   msg  : {"primary marked stale", "ReplicaSetNoPrimary", "other"}]

\* retryableErrors.includes(error.name) ||
\* error.message.includes('primary marked stale')
IsRetryable(e) ==
  \/ e.name \in {"MongoServerSelectionError", "MongoNetworkError",
                 "MongoNetworkTimeoutError", "MongoWriteConcernError"}
  \/ e.msg = "primary marked stale"

\* The catch of adminAuth around executeWithRetry.
AdminAuthCatch(e) ==
  IF \/ e.name = "MongoServerSelectionError"
     \/ e.msg = "primary marked stale"
     \/ e.msg = "ReplicaSetNoPrimary"
  THEN "503" ELSE "500"

\* mongoErrorHandler, then the general handler of index.js (none of the
\* errors here is a duplicate key, a validation or a cast error).
MongoErrorHandler(e) ==
  IF e.name = "MongoServerSelectionError" \/ e.msg = "primary marked stale"
  THEN "503" ELSE "500"

\* A request enters adminAuth (kind "adminAuth") or a route whose store
\* operation goes through createDbOperation (kind "dbop").
RT_Start(p, kind) ==
  /\ CanBegin(p)
  /\ calls' = calls + 1
  /\ proc' = [proc EXCEPT ![p] =
                [Begin(p, kind) EXCEPT !.pc = "rt_try", !.attempt = 1,
                                       !.max = MaxRetries]]
  /\ UNCHANGED store

\* executeWithRetry(operation, operationName, maxRetries) called with a
\* maxRetries of the caller's choice.
RT_Call(p, n) ==
  /\ CanBegin(p)
  /\ calls' = calls + 1
  /\ proc' = [proc EXCEPT ![p] =
                [Begin(p, "retry") EXCEPT !.pc = "rt_try", !.attempt = 1,
                                          !.max = n]]
  /\ UNCHANGED store

\* (mutant) a delay that doubles without a ceiling
BackoffUncapped(attempt) == 1000 * 2^(attempt - 1)

\* Math.min(1000 * Math.pow(2, attempt - 1), 5000)
Backoff(attempt) ==
  IF 1000 * 2^(attempt - 1) < 5000 THEN 1000 * 2^(attempt - 1) ELSE 5000

\* One turn of the loop of executeWithRetry: the operation returns, or throws
\* out; a retryable error before the last attempt leads to the next attempt,
\* any other error reaches the caller's handler.
RT_Try(p, out) ==
  /\ proc[p].pc = "rt_try"
  /\ LET r == [proc[p] EXCEPT !.invoked = @ + 1]
     IN IF out = NoError THEN Respond(p, [r EXCEPT !.err = NoError], "next")
        ELSE IF IsRetryable(out) /\ r.attempt < r.max
        THEN /\ proc' = [proc EXCEPT ![p] =
                          [r EXCEPT !.attempt = @ + 1, !.err = out,
                                    !.waits = Append(@, Backoff(r.attempt))]]
             /\ UNCHANGED store
        ELSE Respond(p, [r EXCEPT !.err = out],
                     IF r.op = "adminAuth" THEN AdminAuthCatch(out)
                     ELSE MongoErrorHandler(out))
  /\ UNCHANGED calls

NextRetry ==
  \/ \E p \in Procs, k \in {"adminAuth", "dbop"} : RT_Start(p, k)
  \/ \E p \in Procs, out \in Errors \cup {NoError} : RT_Try(p, out)

SpecRetry == InitReference /\ [][NextRetry]_vars

MaxRetriesArg == 5

\* One error of each kind: retryable by its name, retryable by its message,
\* and not retryable.
Outcomes ==
  {NoError,
   [name |-> "MongoNetworkError", msg |-> "other"],
   [name |-> "MongoWriteConcernError", msg |-> "other"],
   [name |-> "MongoError", msg |-> "primary marked stale"],
   [name |-> "MongoError", msg |-> "other"]}

\* executeWithRetry under any maxRetries, one call after the other (the
\* calls share nothing); an invocation of the operation settles (the
\* driver's selection and socket timeouts see to that) and the timer of the
\* delay fires.
NextBackoff ==
  \/ \E n \in 1..MaxRetriesArg : RT_Call(1, n)
  \/ \E out \in Outcomes : RT_Try(1, out)

SpecBackoff ==
  /\ InitReference
  /\ [][NextBackoff]_vars
  /\ WF_vars(\E out \in Outcomes : RT_Try(1, out))

\* Status updates by Editors on one paid order that is still pending.
InitRefund ==
  /\ \E b \in 0..MaxAmount : users = [u \in UserIds |-> UserWith(b)]
  /\ txs = <<>>
  /\ orders = <<NewOrder(1, 1, "pending", 1, 0)>>
  /\ bundle = InitBundle(1)
  /\ proc = [p \in Procs |-> IdleProc]
  /\ calls = 0
  /\ lastDone = 0
  /\ loose = 0

NextRefund ==
  \/ \E p \in Procs, o \in 1..MaxCalls, st \in Statuses : SU_ReadOrder(p, o, st)
  \/ \E p \in Procs : SU_ReadUser(p)
  \/ \E p \in Procs : SU_SaveUser(p)
  \/ \E p \in Procs : SU_SaveOrder(p)
  \/ \E p \in Procs, o \in 1..MaxCalls, st \in Statuses : BS_Read(p, o, st)
  \/ \E p \in Procs : BS_Refund(p)
  \/ \E p \in Procs : BS_Write(p)
  \/ \E p \in Procs : BS_Commit(p)

SpecRefund == InitRefund /\ [][NextRefund]_vars

\* ------------------------------------------------------------ properties
RECURSIVE SumAmounts(_, _)
\* Sum of the amounts of the completed Transactions of type `type`.
SumAmounts(s, type) ==
  IF s = <<>> THEN 0
  ELSE (IF Head(s).status = "completed" /\ Head(s).type = type
        THEN Head(s).amount ELSE 0) + SumAmounts(Tail(s), type)

\* Every worker has finished a processSuccessfulPayment call on reference r,
\* each call began while r was still pending, and no store fault was injected.
AllCalledPending(r) ==
  \A p \in Procs :
     /\ proc[p].op = "psp" /\ proc[p].pc = "done" /\ proc[p].ref = r
     /\ proc[p].startPending /\ ~proc[p].faulted

\* C1 (as claimed): of N calls on one pending reference exactly one credits the
\* wallet and completes the Transaction; each other call returns 'already
\* processed' or 'being processed'.
C1_ExactlyOnceOthersReturn ==
  \A r \in 1..Len(txs) :
     AllCalledPending(r) =>
       /\ Cardinality({p \in Procs : proc[p].result = "processed"}) = 1
       /\ \A p \in Procs :
            proc[p].result \in {"processed", "alreadyProcessed", "beingProcessed"}
       /\ txs[r].status = "completed"
       /\ users[txs[r].user].balance = SumAmounts(txs, "deposit")

\* No handler is in the middle of a request.
Quiescent == \A p \in Procs : proc[p].pc \in {"idle", "done"}

\* Every completed Transaction has had its balance write committed.
AllApplied ==
  \A i \in 1..Len(txs) : txs[i].status = "completed" => txs[i].applied

\* The signed delta a Transaction records: credits add, debits subtract.
SignedDelta(t) ==
  IF t.type \in {"deposit", "refund", "reward"} THEN t.amount
  ELSE IF t.amount < 0 THEN t.amount ELSE 0 - t.amount

RECURSIVE SumDeltas(_, _)
\* Sum of the signed deltas of user u's completed Transactions.
SumDeltas(s, u) ==
  IF s = <<>> THEN 0
  ELSE (IF Head(s).status = "completed" /\ Head(s).user = u
        THEN SignedDelta(Head(s)) ELSE 0) + SumDeltas(Tail(s), u)

\* C3 (as claimed): once every handler has returned, each balance write has
\* its Transaction and each completed Transaction has its balance write.
C3_TxAndBalanceTogether == Quiescent => (loose = 0 /\ AllApplied)

\* C4 (as claimed): with no request in flight and none cut short, a user's
\* balance is the initial balance plus the signed deltas of the user's
\* completed Transactions.
C4_BalanceIsSumOfDeltas ==
  (Quiescent /\ AllApplied) =>
     \A u \in UserIds : users[u].balance = users[u].initial + SumDeltas(txs, u)

\* C5 (as claimed): with no request in flight and none cut short, the balance
\* equals balanceAfter of the Transaction completed most recently.
C5_BalanceIsLastBalanceAfter ==
  (Quiescent /\ AllApplied /\ lastDone # 0) =>
     users[txs[lastDone].user].balance = txs[lastDone].balanceAfter

\* C6 (as claimed): no debit writes a balance computed from a balance that
\* another debit on the same user has replaced since it was checked.
C6_NoStaleDebit ==
  \A p \in Procs : proc[p].op \in DebitOps => ~proc[p].stale

\* C7 (as claimed): wallet.balance is never negative.
C7_BalanceNonNegative == \A u \in UserIds : users[u].balance >= 0

\* C2: a call that starts after the reference was completed writes nothing
\* (wallet and Transaction unchanged) and returns alreadyProcessed.
C2_SecondCallNoOp ==
  \A p \in Procs :
     (proc[p].op = "psp" /\ proc[p].startCompleted) =>
       /\ ~proc[p].wrote
       /\ proc[p].locks = {}
       /\ proc[p].pc = "done" => proc[p].result = "alreadyProcessed"

C2_Witness ==
  \E p \in Procs :
     /\ proc[p].op = "psp" /\ proc[p].startCompleted /\ proc[p].pc = "done"
     /\ proc[p].result = "alreadyProcessed"
     /\ txs[proc[p].ref].status = "completed"
     /\ users[txs[proc[p].ref].user].balance = txs[proc[p].ref].balanceAfter

\* The provider turned the submission of p's current request down, or the
\* call failed or timed out.
ProviderTurnedDown(p) ==
  /\ proc[p].op \in {"placeorder", "api"}
  /\ proc[p].resp \in {"rejected", "error"}

\* C8: a placement whose provider call was rejected or failed persists no
\* Order, no Transaction and no wallet debit.
C8_ProviderFailurePersistsNothing ==
  \A p \in Procs :
     ProviderTurnedDown(p) =>
       /\ \A i \in 1..Len(orders) : orders[i].by # proc[p].req
       /\ \A i \in 1..Len(txs) : txs[i].by # proc[p].req
       /\ ~proc[p].wrote
       /\ proc[p].pc = "done" => proc[p].result \in {"providerFailed", "threw"}

C8_Witness ==
  \E p \in Procs :
     /\ ProviderTurnedDown(p) /\ proc[p].pc = "done"
     /\ proc[p].result = "providerFailed"
     /\ users[proc[p].user].balance = users[proc[p].user].initial
     /\ users[proc[p].user].balance >= proc[p].amt
     /\ orders = <<>> /\ txs = <<>>

\* C9: when the provider turns an API order down after the stock was reserved,
\* the step that handles the failure leaves the bundle's available, reserved
\* and sold units at the values they had when the request read the bundle.
C9_ReservationReleased ==
  [][\A p \in Procs :
       (proc[p].pc = "api_failed" /\ proc'[p].pc = "done") =>
          /\ bundle'.available = proc[p].snapBundle[1].available
          /\ bundle'.reserved = proc[p].snapBundle[1].reserved
          /\ bundle'.sold = proc[p].snapBundle[1].sold]_vars

C9_Witness ==
  \E p \in Procs :
     /\ proc[p].op = "api" /\ proc[p].resp \in {"rejected", "error"}
     /\ proc[p].pc = "done" /\ proc[p].result = "providerFailed"
     /\ proc[p].qty > 0
     /\ calls = 1
     /\ bundle.available = bundle.initial /\ bundle.reserved = 0
     /\ bundle.sold = 0

\* C10: stockUnits.available is never negative, in the stored bundle and in
\* any document a session is about to commit.
C10_AvailableNonNegative ==
  /\ bundle.available >= 0
  /\ \A p \in Procs : proc[p].stBundle # <<>> => proc[p].stBundle[1].available >= 0

C10_Witness ==
  \E p \in Procs :
     /\ proc[p].op \in {"release", "adjust"} /\ proc[p].qty < 0
     /\ proc[p].pc = "done" /\ proc[p].result \in {"invalid", "threw"}
     /\ bundle.available + proc[p].qty < 0

\* Units of a bundle document accounted for: available + reserved + sold.
TotalUnits(b) == b.available + b.reserved + b.sold

\* C11 (as claimed): whenever a reservation method or restock is about to run
\* on a loaded bundle and does not throw, reserve, confirm and release leave
\* available + reserved + sold unchanged and restock adds exactly its units.
C11_StockTotalConserved ==
  \A p \in Procs :
     (proc[p].pc = "st_apply"
        /\ proc[p].op \in {"reserve", "confirm", "release", "restock"}) =>
       LET loaded == proc[p].snapBundle[1]
           res == StockApply(proc[p].op, loaded, proc[p].qty)
       IN res.ok =>
            TotalUnits(res.doc) =
              TotalUnits(loaded) + (IF proc[p].op = "restock" THEN proc[p].qty ELSE 0)

\* Order placement requests, and their steps after the point where the
\* balance check stands (or would stand).
OrderOps == {"placeorder", "bulk", "api"}

PastBalanceCheck ==
  {"po_provider", "po_saveuser", "po_commit", "bp_save", "bp_saveuser",
   "bp_commit", "api_reserve", "api_provider", "api_failed", "api_saveuser",
   "api_commit"}

\* C12 (as claimed): an order request whose total exceeds the balance it reads
\* goes no further than the balance check, answers insufficient funds, and
\* leaves no Order, no Transaction and no balance write behind.
C12_InsufficientFundsRejected ==
  /\ \A p \in Procs :
       (proc[p].op \in OrderOps /\ proc[p].pc \in PastBalanceCheck) =>
          proc[p].amt <= proc[p].balBefore
  /\ \A p \in Procs :
       (proc[p].op \in OrderOps /\ proc[p].result = "insufficient") =>
          /\ ~proc[p].wrote
          /\ \A i \in 1..Len(orders) : orders[i].by # proc[p].req
          /\ \A i \in 1..Len(txs) : txs[i].by # proc[p].req
  /\ \A i \in 1..Len(txs) :
       txs[i].type = "purchase" => txs[i].balanceAfter >= 0

\* C13 (as claimed): an order request that is still running after its stock
\* check read a bundle with stockUnits.available above 0; on available = 0 it
\* has answered out of stock before reading the wallet or calling the provider.
C13_OutOfStockFirst ==
  \A p \in Procs :
     (proc[p].op \in {"placeorder", "api"} /\ ~Free(p)) => proc[p].sawAvail > 0

RECURSIVE SumRefunded(_, _)
\* Sum of the prices of user u's orders that have been refunded.
SumRefunded(s, u) ==
  IF s = <<>> THEN 0
  ELSE (IF Head(s).user = u /\ Head(s).refunds > 0 THEN Head(s).price ELSE 0)
       + SumRefunded(Tail(s), u)

\* C14 (as claimed): once every status update has returned, each refunded
\* order has added its price to its user's balance exactly once, whichever
\* of the single and bulk status routes carried the update.
C14_RefundExactlyOnce ==
  Quiescent =>
    \A u \in UserIds : users[u].balance = users[u].initial + SumRefunded(orders, u)

\* C15 (as claimed): every order whose refund has been credited has a
\* Transaction of type refund or credit for its user whose balanceBefore and
\* balanceAfter differ by the order's price.
C15_RefundRecordsTransaction ==
  \A o \in 1..Len(orders) :
     orders[o].refunds > 0 =>
       \E i \in 1..Len(txs) :
          /\ txs[i].type \in {"refund", "credit"}
          /\ txs[i].user = orders[o].user
          /\ txs[i].balanceAfter = txs[i].balanceBefore + orders[o].price

\* Outcomes of processSuccessfulPayment other than a credit.
PspFailures == {"userNotFound", "invalidAmount", "threw"}

\* C16: a call that won the claim and then failed (store error, missing
\* user, non-positive amount) has committed nothing, so no credit is applied;
\* its Transaction carries no processing claim and, while still pending,
\* matches the claim filter again; a store error comes back as a throw.
C16_FailureReleasesClaim ==
  \A p \in Procs :
     (proc[p].op = "psp" /\ proc[p].won /\ proc[p].pc = "done"
        /\ proc[p].result # "processed") =>
       /\ proc[p].result \in PspFailures
       /\ ~proc[p].wrote
       /\ proc[p].faulted => proc[p].result = "threw"
       /\ ~txs[proc[p].ref].processing
       /\ txs[proc[p].ref].status = "pending" => ClaimFilter(txs[proc[p].ref])

\* A call won the claim and failed, and a later call has won it again.
C16_Witness ==
  \E p \in Procs, q \in Procs :
     /\ proc[p].op = "psp" /\ proc[p].won /\ proc[p].pc = "done"
     /\ proc[p].result \in PspFailures
     /\ proc[q].op = "psp" /\ proc[q].won /\ proc[q].req > proc[p].req
     /\ proc[q].ref = proc[p].ref

\* Transaction i is a deposit that has not been completed.
StillPending(i) == i \in 1..Len(txs) /\ txs[i].status = "pending"

\* A call holds the processing claim on Transaction i.
ClaimHeld(i) == \E p \in Procs : proc[p].won /\ proc[p].tx = i

\* A run of cleanupStuckTransactions has returned.
SweepRan == \E p \in Procs : proc[p].op = "sweep" /\ proc[p].pc = "done"

CreditStep ==
  \/ \E u \in UserIds : users'[u].balance # users[u].balance
  \/ \E i \in 1..Len(txs) :
        txs[i].status # "completed" /\ txs'[i].status = "completed"

\* C18 (as claimed): every step that credits a wallet or completes a deposit
\* Transaction is the commit of a processSuccessfulPayment call.
C18_CreditOnlyThroughRoutine ==
  [][CreditStep => \E p \in Procs : proc[p].pc = "psp_commit" /\ PSP_Commit(p)]_vars

\* The HTTP status a webhook handler answers with, from its return
\* statements: handleWebhook of unnamed/part_001 for the older handler,
\* handleWebhook of deposite.js around a processSuccessfulPayment call.
HookStatus(r) ==
  IF r.result = "badSignature" THEN 401
  ELSE IF r.op = "lgwebhook" /\ r.result = "threw" THEN 500
  ELSE 200

\* C19 (as claimed): a webhook whose signature was accepted is answered with
\* 200 whatever the reconciliation returned or threw.
C19_WebhookAlwaysAcknowledged ==
  \A p \in Procs :
     (proc[p].pc = "done" /\ proc[p].op \in {"psp", "lgwebhook"}
        /\ proc[p].result # "badSignature") => HookStatus(proc[p]) = 200

\* C20 (as claimed): a completed deposit Transaction stays completed and
\* keeps its amount, balanceBefore and balanceAfter in every later step.
C20_CompletedIsFinal ==
  [][\A i \in 1..Len(txs) :
       (txs[i].type = "deposit" /\ txs[i].status = "completed") =>
         /\ txs'[i].status = "completed"
         /\ txs'[i].amount = txs[i].amount
         /\ txs'[i].balanceBefore = txs[i].balanceBefore
         /\ txs'[i].balanceAfter = txs[i].balanceAfter]_vars

\* Transaction types (schema.js transactionSchema.type).
TxTypes == {"deposit", "withdrawal", "purchase", "refund", "adjustment",
            "debit", "credit", "reward"}

\* C21 (as claimed): each Transaction type has one sign convention, amount
\* added as stored or amount subtracted, under which every completed
\* Transaction of that type has balanceAfter = balanceBefore + signed amount.
C21_OneSignConventionPerType ==
  \A ty \in TxTypes :
     \E sign \in {1, 0 - 1} :
        \A i \in 1..Len(txs) :
           (txs[i].type = ty /\ txs[i].status = "completed") =>
             txs[i].balanceAfter = txs[i].balanceBefore + sign * txs[i].amount

AdminTxTypes == {"deposit", "debit", "reward"}

C24_SameStatusRejected ==
  \A p \in Procs :
     (proc[p].pc = "done" /\ proc[p].op \in {"status", "bulkstatus"} /\ proc[p].same)
       => (proc[p].result = "sameStatus" /\ ~proc[p].wrote)

\* Network, server-selection and replica-election errors.
Transient(e) ==
  \/ e.name \in {"MongoServerSelectionError", "MongoNetworkError",
                 "MongoNetworkTimeoutError"}
  \/ e.msg \in {"primary marked stale", "ReplicaSetNoPrimary"}

\* C25: a request whose store operation failed on its last attempt with a
\* transient error was answered with 503.
C25_ExhaustedRetriesAnswer503 ==
  \A p \in Procs :
     (/\ proc[p].pc = "done"
      /\ proc[p].op \in {"adminAuth", "dbop"}
      /\ proc[p].attempt = MaxRetries
      /\ Transient(proc[p].err))
       => proc[p].result = "503"

\* C26: a call of processSuccessfulPayment that did not win the claim
\* answers "already processed" exactly when the Transaction was completed,
\* "being processed" exactly when it was pending and claimed by another call
\* in flight, and "not found" exactly when no Transaction had the reference.
C26_LoserAnswers ==
  \A p \in Procs :
     (proc[p].pc = "done" /\ proc[p].op = "psp" /\ ~proc[p].won) =>
        /\ (proc[p].result = "alreadyProcessed") <=> (proc[p].saw = "completed")
        /\ (proc[p].result = "beingProcessed") <=> (proc[p].saw = "held")
        /\ (proc[p].result = "notFound") <=> (proc[p].saw = "absent")

\* Call q holds the processing claim it has set on Transaction i and not
\* yet committed or given up.
HoldsClaim(q, i) ==
  /\ proc[q].won
  /\ proc[q].tx = i
  /\ proc[q].stTx # <<>>

C28_TimeoutLeavesDepositRetryable ==
  [][\A p \in Procs :
       (proc'[p].pc = "done" /\ proc'[p].op = "verify" /\ proc'[p].result = "408")
         => /\ ~proc'[p].wrote /\ ~proc'[p].won
            /\ proc[p].pc = "vt_paystack" =>
                 /\ txs' = txs /\ users' = users
                 /\ LET i == TxByRef(proc[p].ref)
                    IN (i # 0 /\ txs[i].status = "pending") => ClaimFilter(txs'[i])]_vars

\* A verification timed out, the client asked again, and the repeated
\* request has completed the deposit and credited the wallet.
C28_Witness ==
  \E p \in Procs :
     /\ proc[p].retry
     /\ proc[p].pc = "done" /\ proc[p].op = "verify" /\ proc[p].result = "processed"
     /\ TxByRef(proc[p].ref) # 0
     /\ txs[TxByRef(proc[p].ref)].status = "completed"
     /\ users[txs[TxByRef(proc[p].ref)].user].balance
          = users[txs[TxByRef(proc[p].ref)].user].initial
            + txs[TxByRef(proc[p].ref)].amount

RECURSIVE CreditsOf(_, _)
\* The amounts of the admin credits and reward payouts recorded for user u.
CreditsOf(s, u) ==
  IF s = <<>> THEN 0
  ELSE (IF Head(s).type \in {"deposit", "reward"} /\ Head(s).user = u
           /\ Head(s).status = "completed"
        THEN Head(s).amount ELSE 0) + CreditsOf(Tail(s), u)

\* C29: once the admin credits and reward payouts on a user have all
\* answered, the balance has grown by the sum of their amounts, however
\* the requests overlapped.
C29_ConcurrentCreditsAdd ==
  (Quiescent /\ AllApplied) =>
     \A u \in UserIds : users[u].balance = users[u].initial + CreditsOf(txs, u)

\* C30: a request places its call to the fulfillment provider only after
\* it has reserved the requested stock.
C30_ReserveBeforeProvider ==
  [][\A p \in Procs :
       (proc[p].api /\ proc[p].resp = "none" /\ proc'[p].resp # "none")
         => proc[p].stBundle # <<>>]_vars

\* C31: a reservation that is refused has written nothing, and one that is
\* committed finds at least the requested units available in the stored
\* bundle and moves exactly that many from available to reserved, so
\* overlapping reservations never take more than was there.
C31_ReserveAtomic ==
  /\ [](\A p \in Procs :
          (proc[p].op = "api" /\ proc[p].pc = "done"
           /\ proc[p].result \in {"insufficientStock", "reserveFailed"})
            => ~proc[p].wrote)
  /\ [][\A p \in Procs :
          (proc[p].pc = "api_commit" /\ proc'[p].pc = "done")
            => /\ bundle.available >= proc[p].qty
               /\ bundle'.available = bundle.available - proc[p].qty
               /\ bundle'.reserved = bundle.reserved + proc[p].qty]_vars

\* Two API orders for the last unit overlapped: one reserved it and was
\* committed, the other's reservation was refused.
C31_Witness ==
  \E p, q \in Procs :
     /\ p # q
     /\ proc[p].op = "api" /\ proc[p].pc = "done" /\ proc[p].result = "ok"
     /\ proc[p].qty = 1
     /\ proc[q].op = "api" /\ proc[q].pc = "done"
     /\ proc[q].result = "reserveFailed" /\ proc[q].qty = 1
     /\ bundle.initial = 1 /\ bundle.available = 0 /\ bundle.reserved = 1

\* C32: the step that stores an order as completed moves the order's
\* quantity from the bundle's reserved units to its sold units.
C32_CompletionConfirmsReservation ==
  [][\A o \in 1..Len(orders) :
       (orders[o].status # "completed" /\ orders'[o].status = "completed")
         => /\ bundle'.reserved = bundle.reserved - orders[o].qty
            /\ bundle'.sold = bundle.sold + orders[o].qty]_vars

\* C33: an order stored as failed has had its price credited back to the
\* wallet, as an order stored as refunded has.
C33_FailedOrderRefunded ==
  \A o \in 1..Len(orders) : orders[o].status = "failed" => orders[o].refunds > 0

\* C34: the step that stores an order as failed or refunded returns the
\* order's quantity from the bundle's reserved units to its available units.
C34_FailureReleasesReservation ==
  [][\A o \in 1..Len(orders) :
       (/\ orders[o].status \notin {"failed", "refunded"}
        /\ orders'[o].status \in {"failed", "refunded"})
         => /\ bundle'.available = bundle.available + orders[o].qty
            /\ bundle'.reserved = bundle.reserved - orders[o].qty]_vars

\* C35: a placement request that has answered after the provider accepted
\* its submission has its Order and its debit Transaction in the store.
C35_AcceptedOrderPersisted ==
  \A p \in Procs :
     (proc[p].pc = "done" /\ proc[p].op \in {"placeorder", "api"}
      /\ proc[p].resp = "ok")
       => /\ \E i \in 1..Len(orders) : orders[i].by = proc[p].req
          /\ \E i \in 1..Len(txs) :
                txs[i].by = proc[p].req /\ txs[i].type = "purchase"

\* C36: the reference a request submits to the provider is not the
\* reference of a stored Order nor one another request has submitted.
C36_NoReferenceResubmitted ==
  [][\A p \in Procs :
       (proc[p].sub = 0 /\ proc'[p].sub # 0)
         => /\ \A i \in 1..Len(orders) : orders[i].ref # proc'[p].sub
            /\ \A q \in Procs \ {p} : proc[q].sub # proc'[p].sub]_vars

\* C37: the stored stock flags are those the available units give:
\* isOutOfStock exactly when available is 0, isLowStock exactly when
\* available is above 0 and at most lowStockThreshold.
C37_FlagsFollowAvailable ==
  /\ bundle.isOutOfStock = (bundle.available = 0)
  /\ bundle.isLowStock =
       (bundle.available > 0 /\ bundle.available <= bundle.lowStockThreshold)

\* The admin routes that change a bundle's available units.
UnitChangingOps == {"restock", "adjust", "set", "outofstock"}

\* C38: the step in which an admin route changes the stored available units
\* appends one entry to the stock history, with the new total and a
\* previous value and delta that add up to it, and no step touches the
\* entries already there.
C38_HistoryAppendOnly ==
  [][/\ Len(bundle'.restockHistory) >= Len(bundle.restockHistory)
     /\ SubSeq(bundle'.restockHistory, 1, Len(bundle.restockHistory))
          = bundle.restockHistory
     /\ \A p \in Procs :
          (/\ proc[p].pc = "st_apply" /\ proc'[p].pc = "done"
           /\ proc[p].op \in UnitChangingOps
           /\ bundle'.available # bundle.available)
            => /\ Len(bundle'.restockHistory) = Len(bundle.restockHistory) + 1
               /\ LET e == bundle'.restockHistory[Len(bundle'.restockHistory)]
                  IN /\ e.newTotal = bundle'.available
                     /\ e.previousUnits + e.addedUnits = e.newTotal]_vars

\* C39: a handler that started a transactional session has, by the time it
\* has answered, aborted or committed the transaction and ended the
\* session: no finished request holds a session that is still in a
\* transaction.
C39_SessionClosedOnReturn ==
  \A p \in Procs : proc[p].pc = "done" => proc[p].session = "none"

RetryOps == {"retry"}

\* C40: executeWithRetry invokes the operation at most maxRetries times and
\* every call of it ends; it invokes the operation again only after a
\* retryable error, having waited min(1000 * 2^(attempt-1), 5000) ms after
\* the attempt that failed; an error that is not retryable, or the error of
\* attempt maxRetries, goes to the caller and nothing is invoked after it.
C40_BoundedBackoffRetry ==
  /\ [](\A p \in Procs : proc[p].op \in RetryOps =>
         LET r == proc[p]
         IN /\ r.invoked <= r.max
            /\ Len(r.waits) = IF r.pc = "rt_try" THEN r.invoked
                              ELSE r.invoked - 1
            /\ \A k \in 1..Len(r.waits) :
                  /\ r.waits[k] <= 5000
                  /\ r.waits[k] \in {1000 * 2^(k - 1), 5000}
                  /\ 1000 * 2^(k - 1) <= 5000 => r.waits[k] = 1000 * 2^(k - 1)
            /\ (r.pc = "rt_try" /\ r.invoked > 0) =>
                  (IsRetryable(r.err) /\ r.invoked < r.max)
            /\ (r.pc = "done" /\ r.err # NoError) =>
                  /\ r.result # "next"
                  /\ ~IsRetryable(r.err) \/ r.invoked = r.max
            /\ (r.pc = "done" /\ r.err = NoError) => r.result = "next")
  /\ [][\A p \in Procs :
          (proc[p].op \in RetryOps /\ proc[p].pc = "done" /\ proc'[p].pc = "done")
            => proc'[p].invoked = proc[p].invoked]_vars
  /\ \A p \in Procs : (proc[p].pc = "rt_try") ~> (proc[p].pc = "done")

\* A call with maxRetries 5 has ended on the retryable error of its fifth
\* attempt, after the waits of 1000, 2000, 4000 and 5000 ms.
C40_Witness ==
  \E p \in Procs :
     /\ proc[p].pc = "done" /\ proc[p].op = "retry" /\ proc[p].max = 5
     /\ proc[p].invoked = 5 /\ IsRetryable(proc[p].err)
     /\ proc[p].result # "next"
     /\ proc[p].waits = <<1000, 2000, 4000, 5000>>

====
